---- MODULE Spec2Model ----
(***************************************************************************)
(* The browser client of qwopper_bopper as a state machine.                *)
(*                                                                         *)
(* Three generations of the page script are modelled, selected by the      *)
(* variable `variant`, which never changes after Init:                     *)
(*   "main"      src/js/main.js          one fighter, no join wired in     *)
(*   "part_004"  src/unnamed/part_004    two fighters, sparkles            *)
(*   "part_002"  src/unnamed/part_002    + per-player hits, scores,        *)
(*                                         the github.io host              *)
(* The browser is the environment: it fires DOMContentLoaded, the          *)
(* WebSocket's open / message events, key events and animation frames.     *)
(* Every handler runs to completion (one action per handler).  A second    *)
(* specification, SpecInterleaved, runs the sparkle scan one loop          *)
(* iteration at a time and lets message handlers run between iterations:   *)
(* the situation the comment at part_002:107-108 designs for.              *)
(***************************************************************************)
EXTENDS Integers, Sequences, FiniteSets, TLC

VARIABLES
  variant,      \* which script the page loads
  host,         \* window.location.host
  search,       \* params.get("player"): a string, or "null" when absent
  page,         \* "loading" | "loaded" | "failed" (DOMContentLoaded threw)
  readyState,   \* of the WebSocket: "none" | "CONNECTING" | "OPEN" | "CLOSED"
  url,          \* the url the WebSocket was constructed with
  listeners,    \* the event listeners registered so far
  raf,          \* "off" | "scheduled": a requestAnimationFrame callback is pending
  frame,        \* parity (0 | 1) of the number of animate() calls so far
  sent,         \* every websocket.send call: [data, state], state = readyState at the call
  shown,        \* diagnostics put in front of the user (alert / prompt.innerHTML)
  errors,       \* uncaught exceptions reported so far
  display,      \* element -> style written by setPosition / drawPart
  scores,       \* element -> innerHTML written by updateScore
  SPARKLES,     \* the global list of sparkles
  canvas,       \* the circles stroked since the last clearRect
  scan,         \* the for-loop of animate: its cursor and what it did
  nextId,       \* identity of the next sparkle object
  gone,         \* identities of the sparkles spliced out so far
  wasOpen,      \* the socket has fired open
  inbox,        \* the events the message listener has handled, oldest first
  keylog,       \* every key event: [type, key, page, state], page and readyState as it came
  inputsLeft    \* how many more inputs (keys, messages, closes) the environment may produce

vars == <<variant, host, search, page, readyState, url, listeners, raf, frame, sent,
          shown, errors, display, scores, SPARKLES, canvas, scan, nextId, gone,
          wasOpen, inbox, keylog, inputsLeft>>

----------------------------------------------------------------------------
(* Bounds of the exploration. *)

\* inputs the environment produces in one run (key events, messages, closes)
MaxInputs == 2

----------------------------------------------------------------------------
(* Constants of the scripts. *)

BLUE_PLAYER == "blue"
RED_PLAYER == "red"
PLAYERS == <<BLUE_PLAYER, RED_PLAYER>>
PARTS == <<"torso", "rleg", "lleg">>

Variants == {"main", "part_004", "part_002"}
Hosts == {"localhost:8000", "benpastel.github.io", "example.org"}
Searches == {"blue", "red", "purple", "null"}
Keys == {"ArrowLeft", "q"}

----------------------------------------------------------------------------
(* IEEE-754 binary64 arithmetic, for sparkle.alpha.                        *)
(*                                                                         *)
(* Every value alpha takes is a multiple of 2^-58 of magnitude at most 1   *)
(* (0.02 has exponent -6, so its last mantissa bit weighs 2^-58), so a     *)
(* value is held exactly as [neg, hi, lo], standing for                    *)
(*      (-1)^neg * (hi * 2^29 + lo) * 2^-58.                               *)
(* A subtraction is the exact difference rounded to 53 significant bits,   *)
(* ties to even, as the hardware does it.  Two limbs keep every            *)
(* intermediate value below 2^31.                                          *)

Limb == 2^29

RECURSIVE BitLen(_)
BitLen(n) == IF n = 0 THEN 0 ELSE 1 + BitLen(n \div 2)

\* the magnitude hi * 2^29 + lo rounded to 53 significant bits, ties to even
Round53(hi, lo) ==
  LET d == BitLen(hi) - 24    \* the magnitude has 29 + BitLen(hi) bits when hi > 0
  IN IF d <= 0 THEN [hi |-> hi, lo |-> lo]
     ELSE LET unit == 2^d
              q == lo \div unit
              r == lo % unit
              half == unit \div 2
              up == IF r > half \/ (r = half /\ q % 2 = 1) THEN 1 ELSE 0
              lo2 == (q + up) * unit
          IN IF lo2 = Limb THEN [hi |-> hi + 1, lo |-> 0]
             ELSE [hi |-> hi, lo |-> lo2]

MagLess(a, b) == a.hi < b.hi \/ (a.hi = b.hi /\ a.lo < b.lo)

\* a - b on magnitudes, for a >= b
MagSub(a, b) ==
  IF a.lo >= b.lo THEN [hi |-> a.hi - b.hi, lo |-> a.lo - b.lo]
  ELSE [hi |-> a.hi - b.hi - 1, lo |-> a.lo + Limb - b.lo]

MagAdd(a, b) ==
  IF a.lo + b.lo >= Limb THEN [hi |-> a.hi + b.hi + 1, lo |-> a.lo + b.lo - Limb]
  ELSE [hi |-> a.hi + b.hi, lo |-> a.lo + b.lo]

Signed(neg, m) ==
  LET r == Round53(m.hi, m.lo)
  IN [neg |-> neg /\ (r.hi # 0 \/ r.lo # 0), hi |-> r.hi, lo |-> r.lo]

\* the binary64 result of x - y
FSub(x, y) ==
  IF x.neg # y.neg THEN Signed(x.neg, MagAdd(x, y))
  ELSE IF MagLess(x, y) THEN Signed(~x.neg, MagSub(y, x))
  ELSE Signed(x.neg, MagSub(x, y))

\* x <= 0
FNonPositive(x) == x.neg \/ (x.hi = 0 /\ x.lo = 0)

\* the literal 1.0 = 2^58 * 2^-58
AlphaBorn == [neg |-> FALSE, hi |-> Limb, lo |-> 0]

\* the literal 0.02 = 0x1.47ae147ae147bp-6 = 5764607523034235 * 2^-58
Fade == [neg |-> FALSE, hi |-> 10737418, lo |-> 128849019]

----------------------------------------------------------------------------
(* Sparkles and the animate loop.                                          *)
(*                                                                         *)
(* size is held in halves of a pixel: 50 is 2 * 50 halves and the shrink   *)
(* of 0.5 is one half; these are exact in binary64.  id stands for the     *)
(* identity of the JavaScript object and ticks counts the loop iterations  *)
(* that have decayed it.                                                   *)

SparkleSize == 50

NewSparkle(id, point) ==
  [id |-> id, x |-> point.x, y |-> point.y, alpha |-> AlphaBorn,
   size |-> 2 * SparkleSize, ticks |-> 0]

\* part_002 records the colour of the player whose hit list held the point
NewColouredSparkle(id, point, player) ==
  [id |-> id, x |-> point.x, y |-> point.y, alpha |-> AlphaBorn,
   size |-> 2 * SparkleSize, ticks |-> 0,
   color |-> IF player = RED_PLAYER THEN "red" ELSE "blue"]

\* variation: the sparkle also rises, sparkle.y -= 1
DecayRising(sparkle) ==
  [sparkle EXCEPT !.alpha = FSub(@, Fade), !.size = @ - 1, !.ticks = @ + 1, !.y = @ - 1]

\* variation: sparkle.size -= 1
DecayShrinkFaster(sparkle) ==
  [sparkle EXCEPT !.alpha = FSub(@, Fade), !.size = @ - 2, !.ticks = @ + 1]

\* sparkle.alpha -= 0.02; sparkle.size -= 0.5
Decay(sparkle) ==
  [sparkle EXCEPT !.alpha = FSub(@, Fade), !.size = @ - 1, !.ticks = @ + 1]

\* variation: && written for ||
FinishedBoth(sparkle) == FNonPositive(sparkle.alpha) /\ sparkle.size <= 0

\* sparkle.alpha <= 0 || sparkle.size <= 0
Finished(sparkle) == FNonPositive(sparkle.alpha) \/ sparkle.size <= 0

\* variation: SPARKLES.splice(i - 1, 1); splice(-1, 1) removes the last element
SpliceBelow(S, i) ==
  IF i >= 1 THEN SubSeq(S, 1, i - 1) \o SubSeq(S, i + 1, Len(S))
  ELSE SubSeq(S, 1, Len(S) - 1)

\* SPARKLES.splice(i, 1), i counted from 0
Splice(S, i) == SubSeq(S, 1, i) \o SubSeq(S, i + 2, Len(S))

\* what drawSparkle strokes: part_004 always strokes red
drawSparkle(sparkle) ==
  [id |-> sparkle.id, x |-> sparkle.x, y |-> sparkle.y, radius |-> sparkle.size,
   alpha |-> sparkle.alpha,
   rgb |-> IF "color" \in DOMAIN sparkle /\ sparkle.color # "red"
           THEN <<0, 0, 255>> ELSE <<255, 0, 0>>]

Ids(S) == {S[k].id : k \in 1..Len(S)}

\* variation: the loop starts at SPARKLES.length - 2
ScanBeginShort(S) ==
  [S |-> S, canvas |-> <<>>,
   scan |-> [active |-> TRUE, i |-> Len(S) - 2, start |-> Ids(S),
             visited |-> <<>>, drawn |-> {}, removed |-> {}]]

\* the state of the for-loop before its first iteration (after clearRect)
ScanBegin(S) ==
  [S |-> S, canvas |-> <<>>,
   scan |-> [active |-> TRUE, i |-> Len(S) - 1, start |-> Ids(S),
             visited |-> <<>>, drawn |-> {}, removed |-> {}]]

\* variation: drawSparkle called after the if, for removed sparkles too
BodyDrawAlways(r) ==
  LET i == r.scan.i
      sparkle == Decay(r.S[i + 1])
      sc == [r.scan EXCEPT !.i = i - 1, !.visited = Append(@, sparkle.id),
                           !.drawn = @ \cup {sparkle.id}]
      S2 == [r.S EXCEPT ![i + 1] = sparkle]
  IN [S |-> IF Finished(sparkle) THEN Splice(S2, i) ELSE S2,
      canvas |-> Append(r.canvas, drawSparkle(sparkle)),
      scan |-> IF Finished(sparkle)
               THEN [sc EXCEPT !.removed = @ \cup {[id |-> sparkle.id, ticks |-> sparkle.ticks]}]
               ELSE sc]

\* one iteration of the for-loop, at index r.scan.i
Body(r) ==
  LET i == r.scan.i
      sparkle == Decay(r.S[i + 1])
      sc == [r.scan EXCEPT !.i = i - 1, !.visited = Append(@, sparkle.id)]
  IN IF Finished(sparkle)
     THEN [S |-> Splice([r.S EXCEPT ![i + 1] = sparkle], i), canvas |-> r.canvas,
           scan |-> [sc EXCEPT !.removed = @ \cup {[id |-> sparkle.id, ticks |-> sparkle.ticks]}]]
     ELSE [S |-> [r.S EXCEPT ![i + 1] = sparkle],
           canvas |-> Append(r.canvas, drawSparkle(sparkle)),
           scan |-> [sc EXCEPT !.drawn = @ \cup {sparkle.id}]]

\* the whole for-loop
RECURSIVE Loop(_)
Loop(r) == IF r.scan.i >= 0 THEN Loop(Body(r)) ELSE r

\* the state after the loop has ended and the next frame was requested
ScanEnd(r) == [r EXCEPT !.scan.active = FALSE]

\* one call of animate(), run to completion
Animate(S) == ScanEnd(Loop(ScanBegin(S)))

RemovedIds(sc) == {e.id : e \in sc.removed}

----------------------------------------------------------------------------
(* The page: elements, styles and the message handlers.                    *)
(*                                                                         *)
(* An inbound event is the value JSON.parse returns: a record whose        *)
(* domain holds the fields that are present.  Reading a field of a         *)
(* missing (undefined) value throws a TypeError, which ends the handler    *)
(* where it stands: a handler's result carries ok = FALSE and whatever     *)
(* it had written before the throw.                                        *)

\* the element a part is drawn on: document.querySelector(`.${player}.${part}`)
\* in part_002, getElementById(`${player}-${part}`) in part_004, and
\* getElementById(part) in main.js, which has one fighter
ElementOf(player, part) ==
  CASE variant = "part_002" -> "." \o player \o "." \o part
    [] variant = "part_004" -> player \o "-" \o part
    [] OTHER -> part

ScoreElementOf(player) == "." \o player \o ".score"

Elements ==
  IF variant = "main" THEN {ElementOf("", PARTS[k]) : k \in 1..Len(PARTS)}
  ELSE {ElementOf(PLAYERS[p], PARTS[k]) : p \in 1..Len(PLAYERS), k \in 1..Len(PARTS)}

ScoreElements ==
  IF variant = "part_002" THEN {ScoreElementOf(PLAYERS[p]) : p \in 1..Len(PLAYERS)} ELSE {}

\* an element's inline style before any script wrote it
NoStyle == [left |-> "", top |-> "", transform |-> ""]

\* variation: the angle written in degrees, as an earlier generation did
StyleDegrees(position) ==
  [left |-> ToString(position.x) \o "px",
   top |-> ToString(position.y) \o "px",
   transform |-> "translate(-50%, -50%) rotate(" \o ToString(position.angle) \o "deg)"]

\* the three style properties setPosition / drawPart assign
Style(position) ==
  [left |-> ToString(position.x) \o "px",
   top |-> ToString(position.y) \o "px",
   transform |-> "translate(-50%, -50%) rotate(" \o ToString(position.angle) \o "rad)"]

\* drawPart(player, "torso", position.torso); ... rleg; ... lleg, from part k on
RECURSIVE DrawParts(_, _, _, _)
DrawParts(r, player, position, k) ==
  IF k > Len(PARTS) \/ ~r.ok THEN r
  ELSE IF PARTS[k] \notin DOMAIN position THEN [r EXCEPT !.ok = FALSE]
  ELSE DrawParts([r EXCEPT !.display[ElementOf(player, PARTS[k])] = Style(position[PARTS[k]])],
                 player, position, k + 1)

\* for (const player of PLAYERS) { const position = ...; drawPart ... }, from player p on
RECURSIVE DrawFighters(_, _, _)
DrawFighters(r, event, p) ==
  IF p > Len(PLAYERS) \/ ~r.ok THEN r
  ELSE LET player == PLAYERS[p]
           holder == IF variant = "part_002" THEN event.positions ELSE event
       IN IF player \notin DOMAIN holder THEN [r EXCEPT !.ok = FALSE]
          ELSE DrawFighters(DrawParts(r, player, holder[player], 1), event, p + 1)

\* variation: the loop stops one point short
RECURSIVE PushAllButLast(_, _, _, _)
PushAllButLast(r, points, player, k) ==
  IF k >= Len(points) THEN r
  ELSE PushAllButLast([r EXCEPT !.S = Append(@, IF variant = "part_002"
                                                THEN NewColouredSparkle(r.nextId, points[k], player)
                                                ELSE NewSparkle(r.nextId, points[k])),
                               !.nextId = @ + 1],
                      points, player, k + 1)

\* variation: SPARKLES.unshift({...})
RECURSIVE PushAllFront(_, _, _, _)
PushAllFront(r, points, player, k) ==
  IF k > Len(points) THEN r
  ELSE PushAllFront([r EXCEPT !.S = <<IF variant = "part_002"
                                      THEN NewColouredSparkle(r.nextId, points[k], player)
                                      ELSE NewSparkle(r.nextId, points[k])>> \o @,
                             !.nextId = @ + 1],
                    points, player, k + 1)

\* for (const point of points) SPARKLES.push({...}), from point k on
RECURSIVE PushAll(_, _, _, _)
PushAll(r, points, player, k) ==
  IF k > Len(points) THEN r
  ELSE PushAll([r EXCEPT !.S = Append(@, IF variant = "part_002"
                                          THEN NewColouredSparkle(r.nextId, points[k], player)
                                          ELSE NewSparkle(r.nextId, points[k])),
                         !.nextId = @ + 1],
               points, player, k + 1)

\* part_002: for (const player of PLAYERS) for (const point of event.hits[player])
RECURSIVE SpawnHits(_, _, _)
SpawnHits(r, event, p) ==
  IF p > Len(PLAYERS) \/ ~r.ok THEN r
  ELSE IF "hits" \notin DOMAIN event THEN [r EXCEPT !.ok = FALSE]
  ELSE IF PLAYERS[p] \notin DOMAIN event.hits THEN [r EXCEPT !.ok = FALSE]
  ELSE SpawnHits(PushAll(r, event.hits[PLAYERS[p]], PLAYERS[p], 1), event, p + 1)

\* part_004: const points = event.damagePoints; for (const point of points)
SpawnDamagePoints(r, event) ==
  IF ~r.ok THEN r
  ELSE IF "damagePoints" \notin DOMAIN event THEN [r EXCEPT !.ok = FALSE]
  ELSE PushAll(r, event.damagePoints, "", 1)

\* variation: element.innerHTML += score
updateScoreAppended(r, player, score) ==
  [r EXCEPT !.scores[ScoreElementOf(player)] = @ \o ToString(score)]

\* element.innerHTML = score
updateScore(r, player, score) ==
  [r EXCEPT !.scores[ScoreElementOf(player)] = ToString(score)]

\* part_002: for (const player of PLAYERS) updateScore(player, event.scores[player])
RECURSIVE UpdateScores(_, _, _)
UpdateScores(r, event, p) ==
  IF p > Len(PLAYERS) \/ ~r.ok THEN r
  ELSE IF "scores" \notin DOMAIN event THEN [r EXCEPT !.ok = FALSE]
  ELSE UpdateScores(updateScore(r, PLAYERS[p], event.scores[PLAYERS[p]]), event, p + 1)

\* the page as the message listener finds it
Before ==
  [ok |-> TRUE, display |-> display, scores |-> scores, S |-> SPARKLES, nextId |-> nextId]

\* the message listener of part_002
receiveState(event) ==
  IF "positions" \notin DOMAIN event THEN [Before EXCEPT !.ok = FALSE]
  ELSE UpdateScores(SpawnHits(DrawFighters(Before, event, 1), event, 1), event, 1)

\* the message listener of part_004
receiveStateDamage(event) ==
  SpawnDamagePoints(DrawFighters(Before, event, 1), event)

\* the message listener of main.js
receivePosition(event) == DrawParts(Before, "", event, 1)

MessageListener(event) ==
  CASE variant = "part_002" -> receiveState(event)
    [] variant = "part_004" -> receiveStateDamage(event)
    [] OTHER -> receivePosition(event)

----------------------------------------------------------------------------
(* What the server may send.  Snapshot v places every part of every        *)
(* fighter at a pose of its own, so a part left over from another          *)
(* snapshot, or another part's pose, shows.                                *)

Snapshots == {1, 2}

Pose(v, k) == [x |-> 100 * v + 10 * k, y |-> 100 * v + 10 * k + 1, angle |-> v + k]

\* the fighter of player number p (0 is blue, 1 is red)
Fighter(v, p) ==
  [torso |-> Pose(v, 3 * p), rleg |-> Pose(v, 3 * p + 1), lleg |-> Pose(v, 3 * p + 2)]

\* blue lands v - 1 hits in snapshot v, red one hit in the even snapshots
HitsOf(v, player) ==
  IF player = BLUE_PLAYER THEN [j \in 1..(v - 1) |-> [x |-> 5 * j, y |-> 6 * v]]
  ELSE IF v % 2 = 0 THEN <<[x |-> 7, y |-> 8 * v]>> ELSE <<>>

Snapshot(v) ==
  CASE variant = "part_002" ->
         [positions |-> [blue |-> Fighter(v, 0), red |-> Fighter(v, 1)],
          hits |-> [blue |-> HitsOf(v, BLUE_PLAYER), red |-> HitsOf(v, RED_PLAYER)],
          scores |-> [blue |-> v, red |-> v + 1]]
    [] variant = "part_004" ->
         [blue |-> Fighter(v, 0), red |-> Fighter(v, 1),
          damagePoints |-> HitsOf(v, BLUE_PLAYER) \o HitsOf(v, RED_PLAYER)]
    [] OTHER -> Fighter(v, 0)

ValidEvents == {Snapshot(v) : v \in Snapshots}

Drop(r, f) == [k \in DOMAIN r \ {f} |-> r[k]]

\* snapshot 2 with one required field missing
MalformedEvents ==
  LET base == Snapshot(2)
  IN CASE variant = "part_002" ->
            {Drop(base, "positions"), [base EXCEPT !.positions = Drop(@, RED_PLAYER)],
             Drop(base, "hits"), [base EXCEPT !.hits = Drop(@, RED_PLAYER)],
             Drop(base, "scores")}
       [] variant = "part_004" -> {Drop(base, RED_PLAYER), Drop(base, "damagePoints")}
       [] OTHER -> {Drop(base, "torso"), Drop(base, "rleg")}

Inbound == ValidEvents \cup MalformedEvents

----------------------------------------------------------------------------
(* Startup, the socket and the outbound messages. *)

\* JSON.stringify({type: "join", player})
JoinMessage(player) == "{\"type\":\"join\",\"player\":\"" \o player \o "\"}"

\* JSON.stringify({keydown: key}) and JSON.stringify({keyup: key})
KeyMessage(type, key) == "{\"" \o type \o "\":\"" \o key \o "\"}"

\* the text joinGame shows (its warning signs are left out)
SetYourUrl ==
  "<br>Set your url to ?player=" \o BLUE_PLAYER \o " or ?player=" \o RED_PLAYER \o "<br>"

\* variation: an unknown host falls back to the local server
getWebSocketServerDefault ==
  CASE variant = "part_002" /\ host = "benpastel.github.io" ->
         [ok |-> TRUE, url |-> "wss://qwopper-bopper-1f56b650128c.herokuapp.com"]
    [] OTHER -> [ok |-> TRUE, url |-> "ws://localhost:8001/"]

\* getWebSocketServer(): ok = FALSE when it throws; only part_002 knows github.io
getWebSocketServer ==
  CASE host = "localhost:8000" -> [ok |-> TRUE, url |-> "ws://localhost:8001/"]
    [] variant = "part_002" /\ host = "benpastel.github.io" ->
         [ok |-> TRUE, url |-> "wss://qwopper-bopper-1f56b650128c.herokuapp.com"]
    [] OTHER -> [ok |-> FALSE, url |-> ""]

\* the listeners the DOMContentLoaded handler registers: main.js defines
\* joinGame and does not call it
Registered ==
  IF variant = "main" THEN {"message", "keydown", "keyup"}
  ELSE {"open", "message", "keydown", "keyup"}

\* animateSparkles() is called by part_004 and part_002 only
HasSparkles == variant \in {"part_004", "part_002"}

\* websocket.send(data) with the socket in `state`: it throws while CONNECTING,
\* transmits while OPEN and silently discards once CLOSED
Send(state, data) ==
  /\ sent' = Append(sent, [data |-> data, state |-> state])
  /\ errors' = IF state = "CONNECTING" THEN errors \cup {"InvalidStateError"} ELSE errors

\* identity check of joinGame
ValidPlayer(player) == player = BLUE_PLAYER \/ player = RED_PLAYER

\* the open listener
joinGame(state) ==
  IF ~ValidPlayer(search)
  THEN /\ shown' = Append(shown, [via |-> IF variant = "main" THEN "prompt" ELSE "alert",
                                  text |-> SetYourUrl])
       /\ errors' = errors \cup {"Error: Set your url"}
       /\ UNCHANGED sent
  ELSE /\ Send(state, JoinMessage(search))
       /\ UNCHANGED shown

\* variation: the next frame is requested only while sparkles are held
RunAnimateWhileAny ==
  \E r \in {Animate(SPARKLES)} :
     /\ SPARKLES' = r.S
     /\ canvas' = r.canvas
     /\ scan' = r.scan
     /\ gone' = gone \cup RemovedIds(r.scan)
     /\ raf' = IF r.S # <<>> THEN "scheduled" ELSE "off"
     /\ frame' = 1 - frame

\* animate(), run to completion, and the frame it requests
RunAnimate ==
  \E r \in {Animate(SPARKLES)} :
     /\ SPARKLES' = r.S
     /\ canvas' = r.canvas
     /\ scan' = r.scan
     /\ gone' = gone \cup RemovedIds(r.scan)
     /\ raf' = "scheduled"
     /\ frame' = 1 - frame

NoScan == [active |-> FALSE, i |-> -1, start |-> {}, visited |-> <<>>,
           drawn |-> {}, removed |-> {}]

Init ==
  /\ variant \in Variants
  /\ host \in Hosts
  /\ search \in Searches
  /\ page = "loading"
  /\ readyState = "none"
  /\ url = ""
  /\ listeners = {}
  /\ raf = "off"
  /\ frame = 0
  /\ sent = <<>>
  /\ shown = <<>>
  /\ errors = {}
  /\ display = [e \in Elements |-> NoStyle]
  /\ scores = [e \in ScoreElements |-> ""]
  /\ SPARKLES = <<>>
  /\ canvas = <<>>
  /\ scan = NoScan
  /\ nextId = 1
  /\ gone = {}
  /\ wasOpen = FALSE
  /\ inbox = <<>>
  /\ keylog = <<>>
  /\ inputsLeft = MaxInputs

\* window's DOMContentLoaded listener
DOMContentLoaded ==
  /\ page = "loading"
  /\ IF ~getWebSocketServer.ok
     THEN /\ page' = "failed"
          /\ errors' = errors \cup {"Error: Unsupported host"}
          /\ UNCHANGED <<readyState, url, listeners, raf, frame, SPARKLES, canvas, scan, gone>>
     ELSE /\ page' = "loaded"
          /\ readyState' = "CONNECTING"
          /\ url' = getWebSocketServer.url
          /\ listeners' = Registered
          /\ IF HasSparkles THEN RunAnimate
             ELSE UNCHANGED <<raf, frame, SPARKLES, canvas, scan, gone>>
          /\ UNCHANGED errors
  /\ UNCHANGED <<variant, host, search, sent, shown, display, scores, nextId,
                 wasOpen, inbox, keylog, inputsLeft>>

\* the connection is established: the socket opens and fires open
WsOpen ==
  /\ readyState = "CONNECTING"
  /\ readyState' = "OPEN"
  /\ wasOpen' = TRUE
  /\ IF "open" \in listeners THEN joinGame("OPEN")
     ELSE UNCHANGED <<sent, shown, errors>>
  /\ UNCHANGED <<variant, host, search, page, url, listeners, raf, frame, display, scores,
                 SPARKLES, canvas, scan, nextId, gone, inbox, keylog, inputsLeft>>

\* the connection fails or the server closes it
WsClose ==
  /\ readyState \in {"CONNECTING", "OPEN"}
  /\ inputsLeft > 0
  /\ readyState' = "CLOSED"
  /\ inputsLeft' = inputsLeft - 1
  /\ UNCHANGED <<variant, host, search, page, url, listeners, raf, frame, sent, shown, errors,
                 display, scores, SPARKLES, canvas, scan, nextId, gone, wasOpen, inbox, keylog>>

\* a frame arrives and the message listener handles it
WsMessage ==
  /\ readyState = "OPEN"
  /\ "message" \in listeners
  /\ inputsLeft > 0
  /\ \E event \in Inbound :
       /\ \E r \in {MessageListener(event)} :
            /\ display' = r.display
            /\ scores' = r.scores
            /\ SPARKLES' = r.S
            /\ nextId' = r.nextId
            /\ errors' = IF r.ok THEN errors ELSE errors \cup {"TypeError"}
       /\ inbox' = Append(inbox, event)
  /\ inputsLeft' = inputsLeft - 1
  /\ UNCHANGED <<variant, host, search, page, readyState, url, listeners, raf, frame, sent,
                 shown, canvas, scan, gone, wasOpen, keylog>>

\* variation: a repeat of the message sent last is dropped
sendKeyEventsDebounced(type, key) ==
  IF sent # <<>> /\ sent[Len(sent)].data = KeyMessage(type, key)
  THEN UNCHANGED <<sent, errors>>
  ELSE Send(readyState, KeyMessage(type, key))

\* the keydown and keyup listeners
sendKeyEvents(type, key) == Send(readyState, KeyMessage(type, key))

\* a key event of the given type reaches the document
KeyEvent(type, key) ==
  /\ inputsLeft > 0
  /\ inputsLeft' = inputsLeft - 1
  /\ keylog' = Append(keylog, [type |-> type, key |-> key, page |-> page,
                               state |-> readyState])
  /\ IF type \in listeners THEN sendKeyEvents(type, key)
     ELSE UNCHANGED <<sent, errors>>
  /\ UNCHANGED <<variant, host, search, page, readyState, url, listeners, raf, frame, shown,
                 display, scores, SPARKLES, canvas, scan, nextId, gone, wasOpen, inbox>>

KeyDown == \E key \in Keys : KeyEvent("keydown", key)

KeyUp == \E key \in Keys : KeyEvent("keyup", key)

\* the requested animation frame: animate() runs to completion
AnimationFrame ==
  /\ raf = "scheduled"
  /\ ~scan.active
  /\ RunAnimate
  /\ UNCHANGED <<variant, host, search, page, readyState, url, listeners, sent, shown,
                 errors, display, scores, nextId, wasOpen, inbox, keylog, inputsLeft>>

Next ==
  \/ DOMContentLoaded
  \/ WsOpen
  \/ WsClose
  \/ WsMessage
  \/ KeyDown
  \/ KeyUp
  \/ AnimationFrame

Spec == Init /\ [][Next]_vars

\* the step AnimationFrame, told by its guard and by the one change every call
\* of animate() makes
FrameFires == raf = "scheduled" /\ ~scan.active /\ frame' = 1 - frame

\* the browser runs a requested animation frame callback at the next repaint:
\* a frame that stays requested is eventually fired
SpecFair == Spec /\ WF_frame(FrameFires)

----------------------------------------------------------------------------
(* The same page with animate() taken one loop iteration at a time, any    *)
(* other handler being free to run between two iterations.  The browser    *)
(* never schedules handlers this way; this is the interleaving the         *)
(* reverse scan is written to withstand.  Every behaviour of Spec is one   *)
(* of SpecInterleaved, with the iterations of a scan taken back to back.   *)

\* clearRect, and the loop's initialisation
AnimateBegin ==
  /\ raf = "scheduled"
  /\ ~scan.active
  /\ \E r \in {ScanBegin(SPARKLES)} :
       /\ canvas' = r.canvas
       /\ scan' = r.scan
  /\ frame' = 1 - frame
  /\ UNCHANGED <<variant, host, search, page, readyState, url, listeners, raf, sent,
                 shown, errors, display, scores, SPARKLES, nextId, gone, wasOpen, inbox, keylog,
                 inputsLeft>>

\* one iteration of the loop
AnimateIterate ==
  /\ scan.active
  /\ scan.i >= 0
  /\ \E r \in {Body([S |-> SPARKLES, canvas |-> canvas, scan |-> scan])} :
       /\ SPARKLES' = r.S
       /\ canvas' = r.canvas
       /\ scan' = r.scan
       /\ gone' = gone \cup RemovedIds(r.scan)
  /\ UNCHANGED <<variant, host, search, page, readyState, url, listeners, raf, frame, sent,
                 shown, errors, display, scores, nextId, wasOpen, inbox, keylog, inputsLeft>>

\* the loop ends and the next frame is requested
AnimateEnd ==
  /\ scan.active
  /\ scan.i < 0
  /\ scan' = ScanEnd([scan |-> scan]).scan
  /\ UNCHANGED <<variant, host, search, page, readyState, url, listeners, raf, frame, sent,
                 shown, errors, display, scores, SPARKLES, canvas, nextId, gone, wasOpen, inbox,
                 keylog, inputsLeft>>

NextInterleaved ==
  \/ DOMContentLoaded
  \/ WsOpen
  \/ WsClose
  \/ WsMessage
  \/ KeyDown
  \/ KeyUp
  \/ AnimateBegin
  \/ AnimateIterate
  \/ AnimateEnd

SpecInterleaved == Init /\ [][NextInterleaved]_vars

----------------------------------------------------------------------------
(* The claims.  What a claim expects is written out here in its own        *)
(* terms (literal messages, literal urls), not through the definitions     *)
(* above.                                                                  *)

JoinTexts ==
  {"{\"type\":\"join\",\"player\":\"blue\"}", "{\"type\":\"join\",\"player\":\"red\"}"}

IsJoin(m) == m.data \in JoinTexts

IsNotJoin(m) == m.data \notin JoinTexts

Joins == SelectSeq(sent, IsJoin)

ExpectedJoin ==
  IF search = "blue" THEN "{\"type\":\"join\",\"player\":\"blue\"}"
  ELSE "{\"type\":\"join\",\"player\":\"red\"}"

\* C1: with the identity blue or red, no join message is sent before the
\* socket has fired open, exactly one {type: "join", player: <identity>} has
\* been sent once it has, it was sent on the open socket, and it is never sent
\* again.
C1_ExactlyOneJoinAfterReady ==
  search \in {"blue", "red"} =>
    /\ Len(Joins) = IF wasOpen THEN 1 ELSE 0
    /\ \A k \in 1..Len(Joins) : Joins[k].data = ExpectedJoin /\ Joins[k].state = "OPEN"

\* C1, on the scripts whose DOMContentLoaded handler calls joinGame
C1_WhereJoinGameIsCalled == variant # "main" => C1_ExactlyOneJoinAfterReady

\* C2: with the identity absent or neither blue nor red, no join message is
\* ever sent, and once the socket has fired open a diagnostic has been shown
\* to the user.
C2_NoJoinAndDiagnostic ==
  search \notin {"blue", "red"} =>
    /\ Len(Joins) = 0
    /\ wasOpen => Len(shown) >= 1

\* C2, on the scripts whose DOMContentLoaded handler calls joinGame
C2_WhereJoinGameIsCalled == variant # "main" => C2_NoJoinAndDiagnostic

AllowList ==
  IF variant = "part_002" THEN {"localhost:8000", "benpastel.github.io"}
  ELSE {"localhost:8000"}

\* C3: localhost:8000 resolves to ws://localhost:8001/, and for a host outside
\* the allow-list startup ends with the error and without a WebSocket: no
\* socket, no url, no listener.
C3_ResolutionFailsClosed ==
  /\ (host = "localhost:8000" /\ page # "loading") =>
        page = "loaded" /\ url = "ws://localhost:8001/" /\ readyState # "none"
  /\ host \notin AllowList =>
        /\ readyState = "none" /\ url = "" /\ listeners = {} /\ sent = <<>>
        /\ page # "loaded"
        /\ page = "failed" => "Error: Unsupported host" \in errors

\* C3's case: startup has stopped on an unknown host
C3_Witness == page = "failed" /\ host = "example.org" /\ readyState = "none"

KeySends == SelectSeq(sent, IsNotJoin)

HeardByRelay(e) == e.page = "loaded"

Heard == SelectSeq(keylog, HeardByRelay)

ExpectedKeyText(type, key) ==
  CASE type = "keydown" /\ key = "ArrowLeft" -> "{\"keydown\":\"ArrowLeft\"}"
    [] type = "keyup" /\ key = "ArrowLeft" -> "{\"keyup\":\"ArrowLeft\"}"
    [] type = "keydown" /\ key = "q" -> "{\"keydown\":\"q\"}"
    [] type = "keyup" /\ key = "q" -> "{\"keyup\":\"q\"}"

AllValid == \A k \in 1..Len(inbox) : inbox[k] \in ValidEvents

FighterNames == IF variant = "main" THEN <<"">> ELSE <<"blue", "red">>

\* the pose snapshot `event` gives the part of the fighter
PoseIn(event, player, part) ==
  CASE variant = "part_002" -> event.positions[player][part]
    [] variant = "part_004" -> event[player][part]
    [] OTHER -> event[part]

ExpectedStyle(pose) ==
  [left |-> ToString(pose.x) \o "px",
   top |-> ToString(pose.y) \o "px",
   transform |-> "translate(-50%, -50%) rotate(" \o ToString(pose.angle) \o "rad)"]

\* C5: when every snapshot applied so far was valid, each part of each fighter
\* shows the x, y and angle (in rad) of the snapshot applied last.
C5_LastSnapshotWins ==
  (inbox # <<>> /\ AllValid) =>
    \A p \in 1..Len(FighterNames), k \in 1..Len(PARTS) :
      display[ElementOf(FighterNames[p], PARTS[k])]
        = ExpectedStyle(PoseIn(inbox[Len(inbox)], FighterNames[p], PARTS[k]))

\* C5's case: a snapshot applied over a different one
C5_Witness ==
  /\ variant = "part_002"
  /\ Len(inbox) = 2 /\ AllValid
  /\ inbox[1] # inbox[2]

\* C6: a sparkle is born with alpha 1.0 and size 50, is still held after each
\* of its first 49 ticks, and is removed by its 50th.
C6_RemovedAfterFiftyTicks ==
  /\ \A k \in 1..Len(SPARKLES) :
        /\ SPARKLES[k].ticks < 50
        /\ SPARKLES[k].ticks = 0 =>
              /\ SPARKLES[k].alpha = [neg |-> FALSE, hi |-> 2^29, lo |-> 0]
              /\ SPARKLES[k].size = 2 * 50
  /\ \A e \in scan.removed : e.ticks = 50

\* C6's case: a tick has removed a sparkle
C6_Witness == \E e \in scan.removed : e.ticks = 50

Count(id, seq) == Cardinality({k \in 1..Len(seq) : seq[k] = id})

\* C7: of the sparkles held when a scan started, none is processed twice, each
\* one not yet processed is still ahead of the cursor, and each has been
\* processed once when the scan ends, whatever is removed or appended meanwhile.
C7_ScanProcessesEachOnce ==
  \A id \in scan.start :
    /\ Count(id, scan.visited) <= 1
    /\ ~scan.active => Count(id, scan.visited) = 1
    /\ (scan.active /\ Count(id, scan.visited) = 0) =>
          \E k \in 1..(scan.i + 1) : k <= Len(SPARKLES) /\ SPARKLES[k].id = id

\* C7's case: a scan still under way has removed a sparkle, and sparkles have
\* been appended since it started
C7_Witness ==
  /\ scan.active /\ scan.i >= 0
  /\ scan.removed # {}
  /\ \E k \in 1..Len(SPARKLES) : SPARKLES[k].id \notin scan.start

Positive(x) == ~x.neg /\ (x.hi > 0 \/ x.lo > 0)

\* C8: after a tick every held sparkle has alpha > 0 and size > 0; the tick
\* removed or drew each sparkle it processed, never both; and nothing removed
\* in this or an earlier tick is held or on the canvas.
C8_NoneOutlivesItsDecay ==
  /\ \A k \in 1..Len(SPARKLES) : Positive(SPARKLES[k].alpha) /\ SPARKLES[k].size > 0
  /\ scan.drawn \cap {e.id : e \in scan.removed} = {}
  /\ scan.drawn \cup {e.id : e \in scan.removed} = {scan.visited[k] : k \in 1..Len(scan.visited)}
  /\ \A k \in 1..Len(canvas) : canvas[k].id \notin gone
  /\ \A k \in 1..Len(SPARKLES) : SPARKLES[k].id \notin gone

\* C8's case: one tick has removed a sparkle and drawn another
C8_Witness == ~scan.active /\ scan.removed # {} /\ scan.drawn # {}

\* C9: a step in which the message listener handles a malformed event leaves
\* the displayed poses, the scores and the sparkle list as they were.
C9_MalformedIsDiscarded ==
  [][(Len(inbox') = Len(inbox) + 1 /\ inbox'[Len(inbox')] \notin ValidEvents)
       => (display' = display /\ scores' = scores /\ SPARKLES' = SPARKLES)]_vars

\* C10: no websocket.send (join, keydown, keyup) is made while the socket is
\* still connecting.
C10_NoSendBeforeReady ==
  \A k \in 1..Len(sent) : sent[k].state # "CONNECTING"

\* the join handshake has failed on an invalid identity
JoinFailed == search \notin {"blue", "red"} /\ Len(shown) >= 1

\* C11: once the join has failed on an invalid identity, the connection stays
\* open but mute: no websocket.send of any kind reaches the open socket.
C11_OpenButMute ==
  JoinFailed => \A k \in 1..Len(sent) : sent[k].state # "OPEN"

\* C11, its first half: the step in which the join fails leaves the socket open
C11_NotClosedByClient ==
  [][(search \notin {"blue", "red"} /\ Len(shown') > Len(shown)) => readyState' = "OPEN"]_vars

\* C12: each startup error has put a diagnostic in front of the user: the
\* unsupported host when startup has stopped on it, the invalid identity once
\* the socket has fired open.
C12_StartupErrorsShown ==
  /\ page = "failed" => Len(shown) >= 1
  /\ (search \notin {"blue", "red"} /\ wasOpen) => Len(shown) >= 1

\* C12, its last part: neither error is retried: after the host error there is
\* never a socket or a listener, after the identity error never a join, and
\* the diagnostic is not repeated
C12_NeverRetried ==
  /\ page = "failed" => (readyState = "none" /\ listeners = {} /\ raf = "off")
  /\ search \notin {"blue", "red"} => (Len(Joins) = 0 /\ Len(shown) <= 1)

\* C13: when every snapshot applied so far was valid, each player's score
\* element shows that player's score in the snapshot applied last.
C13_LastSnapshotWinsScores ==
  (variant = "part_002" /\ inbox # <<>> /\ AllValid) =>
    /\ scores[".blue.score"] = ToString(inbox[Len(inbox)].scores.blue)
    /\ scores[".red.score"] = ToString(inbox[Len(inbox)].scores.red)

\* C13's case: a snapshot applied over one with other scores
C13_Witness ==
  /\ variant = "part_002"
  /\ Len(inbox) = 2 /\ AllValid
  /\ inbox[1].scores.blue # inbox[2].scores.blue
  /\ inbox[1].scores.red # inbox[2].scores.red
  /\ scores[".red.score"] = "2"

\* the damage points of a snapshot in the order the listener walks them, each
\* with the colour its sparkle is to get ("" where sparkles have no colour)
DamagePointsOf(event) ==
  CASE variant = "part_002" ->
         [j \in 1..Len(event.hits.blue) |->
            [x |-> event.hits.blue[j].x, y |-> event.hits.blue[j].y, color |-> "blue"]]
         \o [j \in 1..Len(event.hits.red) |->
            [x |-> event.hits.red[j].x, y |-> event.hits.red[j].y, color |-> "red"]]
    [] variant = "part_004" ->
         [j \in 1..Len(event.damagePoints) |->
            [x |-> event.damagePoints[j].x, y |-> event.damagePoints[j].y, color |-> ""]]
    [] OTHER -> <<>>

\* sparkle s is newly born at point pt
BornAt(s, pt) ==
  /\ s.x = pt.x /\ s.y = pt.y
  /\ s.alpha = [neg |-> FALSE, hi |-> 2^29, lo |-> 0]
  /\ s.size = 2 * 50
  /\ s.ticks = 0
  /\ pt.color # "" => s.color = pt.color

\* C14: a step that applies a valid snapshot with k damage points leaves the
\* sparkles held before as they were and in their places, and appends k new
\* objects after them, the j-th at the j-th point with alpha 1.0, size 50 and
\* the colour of the player whose hit list held the point.
C14_SpawnAppendsOnePerPoint ==
  [][(Len(inbox') = Len(inbox) + 1 /\ inbox'[Len(inbox')] \in ValidEvents) =>
       LET pts == DamagePointsOf(inbox'[Len(inbox')])
           n == Len(SPARKLES)
       IN /\ Len(SPARKLES') = n + Len(pts)
          /\ SubSeq(SPARKLES', 1, n) = SPARKLES
          /\ \A j \in 1..Len(pts) :
               /\ BornAt(SPARKLES'[n + j], pts[j])
               /\ SPARKLES'[n + j].id \notin Ids(SPARKLES) \cup gone
               /\ \A h \in 1..Len(pts) : h # j => SPARKLES'[n + h].id # SPARKLES'[n + j].id]_vars

\* C14's case: two points, one of each player, spawned behind sparkles that
\* have already decayed
C14_Witness ==
  /\ variant = "part_002"
  /\ Len(SPARKLES) = 4
  /\ SPARKLES[1].ticks > 0 /\ SPARKLES[2].ticks > 0
  /\ SPARKLES[3].ticks = 0 /\ SPARKLES[3].color = "blue"
  /\ SPARKLES[4].ticks = 0 /\ SPARKLES[4].color = "red"

C16_ResolutionCoversAllowList ==
  page # "loading" =>
    /\ host = "benpastel.github.io" =>
         (page = "loaded" /\ url = "wss://qwopper-bopper-1f56b650128c.herokuapp.com")
    /\ host = "localhost:8000" => (page = "loaded" /\ url = "ws://localhost:8001/")
    /\ host = "example.org" => (page = "failed" /\ url = "")

\* C16, on the script that knows the production host
C16_WhereProductionIsListed == variant = "part_002" => C16_ResolutionCoversAllowList

\* C16's case: the page served from the production host has started
C16_Witness ==
  /\ variant = "part_002" /\ host = "benpastel.github.io"
  /\ page = "loaded" /\ readyState = "OPEN"

\* the tick loop has been started
Ticking == page = "loaded" /\ variant \in {"part_004", "part_002"}

\* C17: once the tick loop has been started a frame is pending at every
\* handler boundary, and ticks keep coming: whatever the socket, the join and
\* the messages do, animate() is called again and again, for ever (the parity
\* of the number of its calls is 0 infinitely often and 1 infinitely often).
C17_TicksForever ==
  /\ [](Ticking => raf = "scheduled")
  /\ []<>(Ticking => frame = 0)
  /\ []<>(Ticking => frame = 1)

\* C17's case: the join has failed, two snapshots have arrived between two
\* ticks, and the tick after them has run
C17_Witness ==
  /\ Ticking
  /\ Len(shown) >= 1
  /\ Len(inbox) = 2
  /\ Len(SPARKLES) = 4
  /\ \A k \in 1..Len(SPARKLES) : SPARKLES[k].ticks = 1

\* C18: no sparkle is held beyond its 50th tick, and in the end, when the
\* server's snapshots have stopped, the collection is empty for good and every
\* sparkle ever spawned has been removed.
C18_EverySparkleRemoved ==
  /\ [](\A k \in 1..Len(SPARKLES) : SPARKLES[k].ticks <= 49)
  /\ <>[](SPARKLES = <<>> /\ gone = 1..(nextId - 1))

\* C18's case: sparkles born at different ticks have all been removed, the
\* last of them by the latest tick
C18_Witness ==
  /\ SPARKLES = <<>>
  /\ Cardinality(gone) = 4
  /\ scan.removed # {}
  /\ inputsLeft = 0

\* the sparkles of S whose identity is in `ids`, in the order of S
Among(S, ids) == SelectSeq(S, LAMBDA sp : sp.id \in ids)

\* sparkle t is sparkle s but for alpha and size (and the count of its decays)
SamePlaceAndColour(s, t) ==
  /\ DOMAIN t = DOMAIN s
  /\ t.id = s.id /\ t.x = s.x /\ t.y = s.y
  /\ "color" \in DOMAIN s => t.color = s.color

\* C19: a step in which animate() runs leaves the displayed poses and scores
\* as they were, adds no sparkle, and leaves the surviving sparkles in their
\* order with their x, y and colour; a step in which the message listener
\* runs leaves every sparkle held before in its place and as it was.
C19_FrameConditions ==
  /\ [][frame' # frame =>
          /\ display' = display
          /\ scores' = scores
          /\ Ids(SPARKLES') \subseteq Ids(SPARKLES)
          /\ LET kept == Among(SPARKLES, Ids(SPARKLES'))
             IN /\ Len(SPARKLES') = Len(kept)
                /\ \A k \in 1..Len(kept) : SamePlaceAndColour(kept[k], SPARKLES'[k])]_vars
  /\ [][Len(inbox') = Len(inbox) + 1 =>
          /\ Len(SPARKLES') >= Len(SPARKLES)
          /\ \A k \in 1..Len(SPARKLES) : SPARKLES'[k] = SPARKLES[k]]_vars

\* C19's case: with poses and scores on display, a tick has removed sparkles
\* and left two others, of different colours, behind
C19_Witness ==
  /\ variant = "part_002"
  /\ scores[".blue.score"] # ""
  /\ ~scan.active /\ scan.removed # {}
  /\ Len(SPARKLES) = 2
  /\ SPARKLES[1].color = "blue" /\ SPARKLES[2].color = "red"
  /\ SPARKLES[1].ticks >= 1

\* k times the double 0.02, exactly, in units of 2^-58
RECURSIVE TimesFade(_)
TimesFade(k) ==
  IF k = 0 THEN [hi |-> 0, lo |-> 0]
  ELSE LET half == TimesFade(k \div 2)
           twice == MagAdd(half, half)
       IN IF k % 2 = 1 THEN MagAdd(twice, [hi |-> 10737418, lo |-> 128849019]) ELSE twice

\* the double the expression 1.0 - 0.02 * k evaluates to
ClosedForm(k) ==
  FSub([neg |-> FALSE, hi |-> 2^29, lo |-> 0], Signed(FALSE, TimesFade(k)))

\* |x - (1 - k * 0.02)| in units of 2^-58, for 0 <= k <= 49, as a magnitude
Drift(x, k) ==
  LET exact == MagSub([hi |-> 2^29, lo |-> 0], TimesFade(k))
  IN IF x.neg THEN MagAdd(x, exact)
     ELSE IF MagLess(x, exact) THEN MagSub(exact, x)
     ELSE MagSub(x, exact)

\* C20, as stated: a held sparkle of age k has k < 50, alpha equal to
\* 1.0 - 0.02 * k and size equal to 50 - 0.5 * k.
C20_LockstepExact ==
  \A j \in 1..Len(SPARKLES) :
    /\ SPARKLES[j].ticks < 50
    /\ SPARKLES[j].alpha = ClosedForm(SPARKLES[j].ticks)
    /\ SPARKLES[j].size = 2 * 50 - SPARKLES[j].ticks

\* C20, amended: a held sparkle of age k has k < 50, size exactly 50 - 0.5 * k
\* and alpha within 2^-50 of 1.0 - 0.02 * k (the rounding of k subtractions);
\* so 0 < alpha <= 1 and 25 < size <= 50, and every sparkle removed went at
\* age 50 with its size still positive: by the alpha test.
C20_LockstepWithinRounding ==
  /\ \A j \in 1..Len(SPARKLES) :
       LET sp == SPARKLES[j]
       IN /\ sp.ticks < 50
          /\ sp.size = 2 * 50 - sp.ticks
          /\ Drift(sp.alpha, sp.ticks).hi = 0 /\ Drift(sp.alpha, sp.ticks).lo <= 2^8
          /\ ~sp.alpha.neg /\ (sp.alpha.hi > 0 \/ sp.alpha.lo > 0)
          /\ (sp.alpha.hi < 2^29 \/ (sp.alpha.hi = 2^29 /\ sp.alpha.lo = 0))
          /\ sp.size > 2 * 25 /\ sp.size <= 2 * 50
  /\ \A e \in scan.removed : e.ticks = 50 /\ 2 * 50 - e.ticks > 0

\* C20's case: a sparkle one tick from its removal is held, its alpha off the
\* closed form, and a tick has removed another
C20_Witness ==
  /\ scan.removed # {}
  /\ \E j \in 1..Len(SPARKLES) :
       /\ SPARKLES[j].ticks = 49
       /\ SPARKLES[j].alpha # ClosedForm(49)

====
